---- MODULE Spec2Model ----
(***************************************************************************)
(* Model of the ActivityNet Captions training pipeline:                    *)
(*   - dataset/activitynet_train.py : video_loader, the construction of    *)
(*     ActivityNetCaptions_Train and its __getitem__ retry loop;           *)
(*   - dataset/activitynet_captions.py : the second video_loader and       *)
(*     preprocess;                                                         *)
(*   - train/train.py : resume, device wrapping, epoch loop, checkpoints,  *)
(*     and the targets built in one training iteration.                    *)
(*                                                                         *)
(* Times are kept exact: a timestamp is a number of half seconds and a     *)
(* framerate a number of half frames per second, so that the float product *)
(* t*fps of the source is the exact rational (t*f)/4 (dyadic values are    *)
(* exact in binary floating point).  Timestamps are non-negative.          *)
(***************************************************************************)
EXTENDS Integers, Sequences, FiniteSets, TLC

\* ------------------------------------------------------------------ bounds
MaxVideos == 2        \* annotation objects in the annotation file
MaxAnnSeg == 1        \* segments per annotation object (constructor model)
MaxSeg == 2           \* segments per video record (access model)
MaxFrame == 3         \* highest frame number of a video (access model)
MaxIdxLen == 3        \* length of the frame index list handed to video_loader
SampleDuration == 2   \* sample_duration of the modelled dataset
NumWorkers == 2       \* concurrent workers on one dataset
NumParams == 2        \* distinct values of the spatial transform's random parameters
MaxStart == 2         \* largest --start_from_ep and largest epoch with a checkpoint on disk
MaxEpochs == 3        \* largest --max_epochs
MaxIt == 1            \* largest number of batches per epoch
MaxMeta == 2          \* objects in the metadata file, and ids in the ids file
MaxPre == 1           \* objects in the annotation file handed to preprocess
MaxBs == 2            \* largest --bs (rows of a batch)
MaxWords == 1         \* largest number of words of a caption

\* ------------------------------------------------------- shared helpers
Max2(a, b) == IF a >= b THEN a ELSE b
Min2(a, b) == IF a <= b THEN a ELSE b
SetMax(S) == CHOOSE m \in S : \A x \in S : x <= m

RECURSIVE SeqsUpTo(_, _)
\* all sequences over S of length 0..n
SeqsUpTo(S, n) ==
    IF n = 0 THEN {<<>>}
    ELSE LET shorter == SeqsUpTo(S, n - 1)
         IN shorter \cup {Append(s, x) : s \in {t \in shorter : Len(t) = n - 1}, x \in S}

VARIABLES
    \* --- construction of ActivityNetCaptions_Train
    ann,            \* the annotation file: sequence of objects, in dict order
    frmDirs,        \* frmDirs[k]: frame numbers of the files in the k-th video's directory
    data,           \* self.data
    initpc,         \* "new" before __init__, "built" after, "idle" when not modelled
    \* --- one dataset and the workers that access it
    rec,            \* self.data[index]
    files,          \* paths of the frame files that exist in the video's directory
    n_actions,      \* self.n_actions (n_samples_for_each_video)
    sample_duration,    \* self.sample_duration
    temporal_transform, \* 0 for None, else the size of the crop / loop padding
    spatial_transform,  \* FALSE for None, TRUE for a configured transform
    mode,           \* "threads": workers share the dataset object; "processes": each has a copy
    workers,        \* the workers running __getitem__
    wpc,            \* wpc[w]: position of worker w in __getitem__
    cand,           \* cand[w]: the local lists sentences, timestamps, fidlist
    actionnum,      \* actionnum[w]
    frame_indices,  \* frame_indices[w]
    clip,           \* clip[w]: list of loaded / transformed frames
    nTransformed,   \* nTransformed[w]: frames of clip[w] already transformed
    stParams,       \* stParams[o]: random parameters stored in transform object o
    retried,        \* retried[w]: the except branch (continue) was taken
    result,         \* result[w]: the returned Sample
    \* --- video_loader as a function
    ldFiles, ldIdx, ldOut, ldpc,
    \* --- train.py
    start_from_ep, max_epochs,  \* args.start_from_ep, args.max_epochs
    n_gpu, dataparallel,        \* torch.cuda.device_count(), args.dataparallel
    max_it,                     \* batches per epoch
    encFiles, decFiles,     \* epochs with an encoder / decoder checkpoint on disk at start
    offset,
    encLoaded, decLoaded,   \* epochs whose checkpoint was loaded into the encoder / decoder
    wrapped,                \* the sub-models are nn.DataParallel wrappers
    ep,             \* the loop variable of the epoch loop
    it,             \* batches of epoch ep already trained on
    iterations,     \* training iterations run so far
    trained,        \* epochs whose batches and scheduler step are complete
    encSaved, decSaved,     \* epoch numbers of the checkpoints written by this run
    tpc,
    \* --- preprocess of activitynet_captions.py
    predata,        \* the annotation objects, in dict order
    metadata,       \* the metadata objects
    vidnum,
    key2idx,
    heap,           \* heap[r]: the dict object that reference r points to
    prepData,       \* the local list data: references into heap, 0 for None
    tmp,            \* the local tmp: a reference into heap
    metaDone,       \* metadata objects the first loop has handled
    preDone,        \* annotation objects the second loop has handled
    ppc,
    \* --- one training iteration of train.py
    vocab,          \* the ids of the special tokens
    bs,             \* args.bs
    captions,       \* the padded caption batch: bs rows of max_length ids
    lengths,        \* the length of each caption, in the order of the rows
    caption,        \* output of caption_gen: one entry per packed position
    targets,        \* targets after torch.cat
    packed,         \* targets after pack_padded_sequence
    bpc

initVars == <<ann, frmDirs, data, initpc>>
itemVars == <<rec, files, n_actions, sample_duration, temporal_transform, spatial_transform,
              mode, workers, wpc, cand, actionnum, frame_indices, clip, nTransformed,
              stParams, retried, result>>
loaderVars == <<ldFiles, ldIdx, ldOut, ldpc>>
trainVars == <<start_from_ep, max_epochs, n_gpu, dataparallel, max_it, encFiles, decFiles,
               offset, encLoaded, decLoaded, wrapped, ep, it, iterations, trained,
               encSaved, decSaved, tpc>>
prepVars == <<predata, metadata, vidnum, key2idx, heap, prepData, tmp, metaDone, preDone, ppc>>
batchVars == <<vocab, bs, captions, lengths, caption, targets, packed, bpc>>
vars == <<initVars, itemVars, loaderVars, trainVars, prepVars, batchVars>>

\* ---------------------------------------------------- parts not running
IdleInit == ann = <<>> /\ frmDirs = <<>> /\ data = <<>> /\ initpc = "idle"
IdleItem ==
    /\ rec = <<>> /\ files = {} /\ n_actions = 0 /\ sample_duration = 0
    /\ temporal_transform = 0 /\ spatial_transform = FALSE /\ mode = "idle"
    /\ workers = {} /\ wpc = <<>> /\ cand = <<>> /\ actionnum = <<>>
    /\ frame_indices = <<>> /\ clip = <<>> /\ nTransformed = <<>> /\ stParams = <<>>
    /\ retried = <<>> /\ result = <<>>
IdleLoader == ldFiles = {} /\ ldIdx = <<>> /\ ldOut = <<>> /\ ldpc = "idle"
IdleTrain ==
    /\ start_from_ep = 0 /\ max_epochs = 0 /\ n_gpu = 0 /\ dataparallel = FALSE /\ max_it = 0
    /\ encFiles = {} /\ decFiles = {} /\ offset = 0 /\ encLoaded = {} /\ decLoaded = {}
    /\ wrapped = FALSE /\ ep = 0 /\ it = 0 /\ iterations = 0 /\ trained = {}
    /\ encSaved = {} /\ decSaved = {}
    /\ tpc = "idle"
IdlePrep ==
    /\ predata = <<>> /\ metadata = <<>> /\ vidnum = 0 /\ key2idx = <<>> /\ heap = <<>>
    /\ prepData = <<>> /\ tmp = 0 /\ metaDone = 0 /\ preDone = 0 /\ ppc = "idle"
IdleBatch ==
    /\ vocab = <<>> /\ bs = 0 /\ captions = <<>> /\ lengths = <<>> /\ caption = <<>>
    /\ targets = <<>> /\ packed = <<>> /\ bpc = "idle"

(***************************************************************************)
(* ActivityNetCaptions_Train.__init__                                      *)
(***************************************************************************)
\* Python int(): truncation toward zero of the rational num/den (den > 0)
IntTrunc(num, den) == IF num >= 0 THEN num \div den ELSE -((-num) \div den)

\* int(t * fps) for t half seconds and fps half frames per second
SecToFrame(t, fps) == IntTrunc(t * fps, 4)

\* a raw caption: <<leading blanks, text, trailing blanks>>
RawSentence(k) == <<k % 2, k, (k + 1) % 2>>
\* str.strip()
Strip(s) == <<0, s[2], 0>>

\* sorted(os.listdir(dir))[-1] and the first number in its name
LastFrameNum(dir) == SetMax(dir)

\* faulty variant: the end frame is not clamped to the last frame
ClampTimestampNoMin(t, fps, lastframenum) ==
    <<Max2(1, SecToFrame(t[1], fps)), SecToFrame(t[2], fps)>>

\* [startframe, endframe] of one [start_sec, end_sec]
ClampTimestamp(t, fps, lastframenum) ==
    <<Max2(1, SecToFrame(t[1], fps)), Min2(lastframenum, SecToFrame(t[2], fps))>>

\* the record appended for annotation object obj with id k
Content(k, obj) ==
    LET lastframenum == LastFrameNum(frmDirs[k])
    IN [id |-> k,
        duration |-> lastframenum,
        sentences |-> [i \in 1..Len(obj.sentences) |-> Strip(obj.sentences[i])],
        timestamps |-> [i \in 1..Len(obj.timestamps) |->
                            ClampTimestamp(obj.timestamps[i], obj.fps, lastframenum)],
        fps |-> obj.fps]

\* faulty variant: an object is skipped only when both conditions hold
SkippedAnd(obj) == ~obj.hasFps /\ Len(obj.sentences) < 1

\* "fps" not in obj.keys() or len(obj["sentences"]) < 1
Skipped(obj) == ~obj.hasFps \/ Len(obj.sentences) < 1

RECURSIVE BuildData(_)
\* self.data after the loop over the first k annotation objects
BuildData(k) ==
    IF k = 0 THEN <<>>
    ELSE IF Skipped(ann[k]) THEN BuildData(k - 1)
         ELSE Append(BuildData(k - 1), Content(k, ann[k]))

\* inputs of the constructor
StartSecs == {0, 4}               \* half seconds: 0.0 s and 2.0 s
EndSecs == {3, 12}                \* half seconds: 1.5 s and 6.0 s
FpsSet == {10}                    \* half frames per second: 5.0
DirSet == {1..5, 1..40}           \* frame files image_00001.jpg .. of a video
AnnTimestamps == SeqsUpTo(StartSecs \X EndSecs, MaxAnnSeg)
AnnObjects ==
    {[hasFps |-> TRUE, fps |-> f,
      sentences |-> [i \in 1..Len(ts) |-> RawSentence(i)], timestamps |-> ts] :
        f \in FpsSet, ts \in AnnTimestamps}
    \cup
    {[hasFps |-> FALSE, fps |-> 0,
      sentences |-> [i \in 1..Len(ts) |-> RawSentence(i)], timestamps |-> ts] :
        ts \in {t \in AnnTimestamps : Len(t) <= 1}}

InitConstruct ==
    /\ \E n \in 1..MaxVideos :
         /\ ann \in [1..n -> AnnObjects]
         /\ frmDirs \in [1..n -> DirSet]
    /\ data = <<>>
    /\ initpc = "new"
    /\ IdleItem /\ IdleLoader /\ IdleTrain /\ IdlePrep /\ IdleBatch

\* the loop of __init__ over ann.items()
Construct ==
    /\ initpc = "new"
    /\ data' = BuildData(Len(ann))
    /\ initpc' = "built"
    /\ UNCHANGED <<ann, frmDirs, itemVars, loaderVars, trainVars, prepVars, batchVars>>

NextConstruct == Construct
SpecConstruct == InitConstruct /\ [][NextConstruct]_vars

\* ------------------------------------------------------------ C7, C8
\* floor of the rational num/den (den > 0), defined by its characteristic property
Floor(num, den) == CHOOSE q \in -1..(num + 1) : q * den <= num /\ num < (q + 1) * den

\* C7: every (start_frame, end_frame) of every record built by __init__ is
\* (max(1, floor(start_sec*fps)), min(duration, floor(end_sec*fps))), so that
\* start_frame >= 1 and end_frame <= duration.
TimestampsClamped ==
    initpc = "built" =>
        \A r \in 1..Len(data) :
            LET obj == ann[data[r].id]
            IN /\ Len(data[r].timestamps) = Len(obj.timestamps)
               /\ \A i \in 1..Len(obj.timestamps) :
                     LET ts == data[r].timestamps[i]
                         t == obj.timestamps[i]
                     IN /\ ts[1] = Max2(1, Floor(t[1] * obj.fps, 4))
                        /\ ts[2] = Min2(data[r].duration, Floor(t[2] * obj.fps, 4))
                        /\ ts[1] >= 1
                        /\ ts[2] <= data[r].duration

\* C7 witness: fps 5.0, [2.0 s, 6.0 s], 40 frames gives [10, 30]; another record has
\* both ends clamped
TimestampsClampedWitness ==
    /\ initpc = "built"
    /\ \E r \in 1..Len(data) :
         /\ data[r].fps = 10 /\ data[r].duration = 40
         /\ ann[data[r].id].timestamps = << <<4, 12>> >>
         /\ data[r].timestamps = << <<10, 30>> >>
    /\ \E r \in 1..Len(data) :
         /\ ann[data[r].id].timestamps = << <<0, 12>> >>
         /\ data[r].timestamps = << <<1, 5>> >>

ValidSegment(ts) == ts[1] < ts[2]

\* C8 as stated: no loaded record lacks an fps value and every loaded record has at
\* least one segment that an access could sample.
EveryRecordSampleable ==
    initpc = "built" =>
        \A r \in 1..Len(data) :
            /\ ann[data[r].id].hasFps
            /\ \E i \in 1..Len(data[r].timestamps) : ValidSegment(data[r].timestamps[i])

\* C8 amended: the loaded records are exactly the annotation objects that have an fps
\* value and at least one sentence, in annotation order.
RecordsHaveFpsAndSentence ==
    initpc = "built" =>
        /\ \A r \in 1..Len(data) :
              /\ ann[data[r].id].hasFps
              /\ data[r].fps = ann[data[r].id].fps
              /\ Len(data[r].sentences) >= 1
        /\ \A r, q \in 1..Len(data) : r < q => data[r].id < data[q].id
        /\ \A k \in 1..Len(ann) :
              (ann[k].hasFps /\ Len(ann[k].sentences) >= 1)
                  <=> (\E r \in 1..Len(data) : data[r].id = k)

\* C8 witness: an object without fps and an object without sentences were left out,
\* and a loaded record has no segment with start_frame < end_frame
RecordsHaveFpsAndSentenceWitness ==
    /\ initpc = "built"
    /\ Len(data) >= 1
    /\ \E k \in 1..Len(ann) : ~ann[k].hasFps /\ Len(ann[k].sentences) >= 1
    /\ \E r \in 1..Len(data) :
         \A i \in 1..Len(data[r].timestamps) : ~ValidSegment(data[r].timestamps[i])

(***************************************************************************)
(* video_loader (both dataset modules)                                     *)
(***************************************************************************)
\* os.path.join(video_dir_path, 'image_{:05d}.jpg'.format(i))
ImagePath(i) == <<"image_", 5, i>>
\* os.path.join(video_dir_path, '{:06d}.jpg'.format(i))
ImagePathCaptions(i) == <<"", 6, i>>
\* image_loader(path): the decoded RGB image of an existing file
image_loader(path) == <<"RGB", path>>

RECURSIVE video_loader_skip(_, _)
\* faulty variant: a missing frame is skipped and loading goes on with the next index
video_loader_skip(exists, indices) ==
    IF indices = <<>> THEN <<>>
    ELSE IF ImagePath(Head(indices)) \in exists
         THEN <<image_loader(ImagePath(Head(indices)))>>
                  \o video_loader_skip(exists, Tail(indices))
         ELSE video_loader_skip(exists, Tail(indices))

RECURSIVE video_loader(_, _)
\* activitynet_train.video_loader: exists is the set of paths with a file
video_loader(exists, indices) ==
    IF indices = <<>> THEN <<>>
    ELSE IF ImagePath(Head(indices)) \in exists
         THEN <<image_loader(ImagePath(Head(indices)))>> \o video_loader(exists, Tail(indices))
         ELSE <<>>

RECURSIVE video_loader_captions(_, _)
\* activitynet_captions.video_loader
video_loader_captions(exists, indices) ==
    IF indices = <<>> THEN <<>>
    ELSE IF ImagePathCaptions(Head(indices)) \in exists
         THEN <<image_loader(ImagePathCaptions(Head(indices)))>>
                  \o video_loader_captions(exists, Tail(indices))
         ELSE <<>>

\* the files of a video directory holding the frames numbered in S, in either layout
FramePaths(S) == {ImagePath(i) : i \in S} \cup {ImagePathCaptions(i) : i \in S}

InitLoader ==
    /\ ldFiles \in {FramePaths(S) : S \in SUBSET (1..MaxFrame)}
    /\ ldIdx \in SeqsUpTo(1..MaxFrame, MaxIdxLen)
    /\ ldOut = <<>>
    /\ ldpc = "call"
    /\ IdleInit /\ IdleItem /\ IdleTrain /\ IdlePrep /\ IdleBatch

LoadTrain ==
    /\ ldpc = "call"
    /\ ldOut' = video_loader(ldFiles, ldIdx)
    /\ ldpc' = "train"
    /\ UNCHANGED <<ldFiles, ldIdx, initVars, itemVars, trainVars, prepVars, batchVars>>

LoadCaptions ==
    /\ ldpc = "call"
    /\ ldOut' = video_loader_captions(ldFiles, ldIdx)
    /\ ldpc' = "captions"
    /\ UNCHANGED <<ldFiles, ldIdx, initVars, itemVars, trainVars, prepVars, batchVars>>

NextLoader == LoadTrain \/ LoadCaptions
SpecLoader == InitLoader /\ [][NextLoader]_vars

\* ---------------------------------------------------------------- C3
\* the path the variant that produced ldOut looks for
PathOf(i) == IF ldpc = "captions" THEN ImagePathCaptions(i) ELSE ImagePath(i)

\* C3: video_loader returns the decoded images of the longest prefix of frame_indices
\* whose files all exist, in order; nothing after the first missing frame is included.
LoaderReturnsLongestPrefix ==
    ldpc \in {"train", "captions"} =>
        LET n == Len(ldOut)
        IN /\ n <= Len(ldIdx)
           /\ \A k \in 1..n :
                /\ PathOf(ldIdx[k]) \in ldFiles
                /\ ldOut[k] = image_loader(PathOf(ldIdx[k]))
           /\ n < Len(ldIdx) => PathOf(ldIdx[n + 1]) \notin ldFiles

\* C3 witness: indices [1,2,3] with frame 2 absent and frame 3 present give frame 1 only
LoaderReturnsLongestPrefixWitness ==
    /\ ldpc = "train"
    /\ ldIdx = <<1, 2, 3>>
    /\ ImagePath(2) \notin ldFiles /\ ImagePath(3) \in ldFiles
    /\ ldOut = <<image_loader(ImagePath(1))>>

(***************************************************************************)
(* ActivityNetCaptions_Train.__getitem__                                   *)
(***************************************************************************)
Channels == 3
ImSize == 224
Params == 1..NumParams

\* list(range(a, b))
Range(a, b) == [i \in 1..Max2(0, b - a) |-> a + i - 1]

RECURSIVE CandidatePositionsLe(_, _)
\* faulty variant: a segment with start_frame = end_frame is kept as a candidate
CandidatePositionsLe(r, k) ==
    IF k = 0 THEN <<>>
    ELSE IF r.timestamps[k][1] <= r.timestamps[k][2]
         THEN Append(CandidatePositionsLe(r, k - 1), k)
         ELSE CandidatePositionsLe(r, k - 1)

RECURSIVE CandidatePositions(_, _)
\* positions, among the first k zipped (sentence, timestamp) pairs of record r, that the
\* loop appends: those with timestamp[0] < timestamp[1]
CandidatePositions(r, k) ==
    IF k = 0 THEN <<>>
    ELSE IF r.timestamps[k][1] < r.timestamps[k][2]
         THEN Append(CandidatePositions(r, k - 1), k)
         ELSE CandidatePositions(r, k - 1)

\* pairs the loop visits before "if num == self.n_actions: break" (n >= 0)
Visited(r, n) == Min2(n, Min2(Len(r.sentences), Len(r.timestamps)))

\* the local lists sentences, timestamps, fidlist after the for loop
Candidates(r, n) ==
    LET pos == CandidatePositions(r, Visited(r, n))
    IN [sentences |-> [j \in 1..Len(pos) |-> r.sentences[pos[j]]],
        timestamps |-> [j \in 1..Len(pos) |-> r.timestamps[pos[j]]],
        fidlist |-> [j \in 1..Len(pos) |->
                        Range(r.timestamps[pos[j]][1], r.timestamps[pos[j]][2])]]

\* the temporal transform: a crop of at most size indices starting at offset begin,
\* loop-padded to exactly size indices
TemporalTransform(indices, size, begin) ==
    LET last == Min2(begin + size, Len(indices))
        crop == SubSeq(indices, begin + 1, last)
    IN [k \in 1..size |-> crop[((k - 1) % Len(crop)) + 1]]

\* offsets the random crop may start at
CropBegins(indices, size) == 0..Max2(0, Len(indices) - size)

\* torch.stack(clip, 0): shape of the stacked tensor
StackShape(c) == <<Len(c), Channels, ImSize, ImSize>>
\* .permute(1, 0, 2, 3)
Permute(shape) == <<shape[2], shape[1], shape[3], shape[4]>>
\* tensor.size(d), d counted from 0
Size(shape, d) == shape[d + 1]

\* torch.stack raises: the elements are not tensors, or the list is empty
StackRaises(c) == ~spatial_transform \/ Len(c) = 0

\* faulty variant: the clip is accepted whenever stacking succeeds
ClipAcceptedAnySize(c) == ~StackRaises(c)

\* the try block passes: stack succeeds and clip.size(1) == self.sample_duration
ClipAccepted(c) ==
    /\ ~StackRaises(c)
    /\ Size(Permute(StackShape(c)), 1) = sample_duration

\* the transform object worker w uses
Owner(w) == IF mode = "threads" THEN 0 ELSE w

StartFrames == 1..2
\* records as __init__ builds them for a directory with the frames in S
ItemRecords(S) ==
    LET d == SetMax(S)
    IN {[id |-> 1, duration |-> d,
         sentences |-> [i \in 1..Len(ts) |-> Strip(RawSentence(i))],
         timestamps |-> ts, fps |-> 2] :
            ts \in SeqsUpTo(StartFrames \X (1..d), MaxSeg) \ {<<>>}}

InitWorkersState ==
    /\ wpc = [w \in workers |-> "start"]
    /\ cand = [w \in workers |-> [sentences |-> <<>>, timestamps |-> <<>>, fidlist |-> <<>>]]
    /\ actionnum = [w \in workers |-> 0]
    /\ frame_indices = [w \in workers |-> <<>>]
    /\ clip = [w \in workers |-> <<>>]
    /\ nTransformed = [w \in workers |-> 0]
    /\ stParams = [o \in {0} \cup workers |-> 0]
    /\ retried = [w \in workers |-> FALSE]
    /\ result = [w \in workers |-> <<>>]

\* one access by one caller
InitItem ==
    /\ \E S \in (SUBSET (1..MaxFrame)) \ {{}} :
         /\ files = {ImagePath(i) : i \in S}
         /\ rec \in ItemRecords(S)
    /\ n_actions \in 1..MaxSeg
    /\ sample_duration = SampleDuration
    /\ temporal_transform \in {0, SampleDuration}
    /\ spatial_transform \in BOOLEAN
    /\ mode = "threads"
    /\ workers = {1}
    /\ InitWorkersState
    /\ IdleInit /\ IdleLoader /\ IdleTrain /\ IdlePrep /\ IdleBatch

\* several workers access the same video of one dataset
InitWorkers ==
    /\ \E S \in {1..(SampleDuration + 1), (1..(SampleDuration + 1)) \ {2}} :
         /\ files = {ImagePath(i) : i \in S}
         /\ rec \in {r \in ItemRecords(1..(SampleDuration + 1)) :
                        r.timestamps \in {<< <<1, SampleDuration + 1>> >>, << <<2, 1>> >>}}
    /\ n_actions = 1
    /\ sample_duration = SampleDuration
    /\ temporal_transform = 0
    /\ spatial_transform = TRUE
    /\ mode \in {"threads", "processes"}
    /\ workers = 1..NumWorkers
    /\ InitWorkersState
    /\ IdleInit /\ IdleLoader /\ IdleTrain /\ IdlePrep /\ IdleBatch

itemConfig == <<rec, files, n_actions, sample_duration, temporal_transform,
                spatial_transform, mode, workers>>

\* lines 130-144: the candidate lists
BuildCandidates(w) ==
    /\ wpc[w] = "start"
    /\ cand' = [cand EXCEPT ![w] = Candidates(rec, n_actions)]
    /\ wpc' = [wpc EXCEPT ![w] = "draw"]
    /\ UNCHANGED <<itemConfig, actionnum, frame_indices, clip, nTransformed, stParams,
                   retried, result, initVars, loaderVars, trainVars, prepVars, batchVars>>

\* line 147 with an empty candidate list: np.random.randint(0, 0) raises ValueError,
\* outside the try block
DrawRaises(w) ==
    /\ wpc[w] = "draw"
    /\ Len(cand[w].sentences) = 0
    /\ wpc' = [wpc EXCEPT ![w] = "raised"]
    /\ UNCHANGED <<itemConfig, cand, actionnum, frame_indices, clip, nTransformed, stParams,
                   retried, result, initVars, loaderVars, trainVars, prepVars, batchVars>>

\* lines 147-152: draw a segment and apply the temporal transform
Draw(w) ==
    /\ wpc[w] = "draw"
    /\ Len(cand[w].sentences) > 0
    /\ \E a \in 0..(Len(cand[w].sentences) - 1) :
         /\ actionnum' = [actionnum EXCEPT ![w] = a]
         /\ IF temporal_transform = 0
            THEN frame_indices' = [frame_indices EXCEPT ![w] = cand[w].fidlist[a + 1]]
            ELSE \E b \in CropBegins(cand[w].fidlist[a + 1], temporal_transform) :
                   frame_indices' = [frame_indices EXCEPT ![w] =
                       TemporalTransform(cand[w].fidlist[a + 1], temporal_transform, b)]
    /\ wpc' = [wpc EXCEPT ![w] = "load"]
    /\ UNCHANGED <<itemConfig, cand, clip, nTransformed, stParams, retried, result,
                   initVars, loaderVars, trainVars, prepVars, batchVars>>

\* line 154: self.loader(...)
Load(w) ==
    /\ wpc[w] = "load"
    /\ clip' = [clip EXCEPT ![w] = video_loader(files, frame_indices[w])]
    /\ nTransformed' = [nTransformed EXCEPT ![w] = 0]
    /\ wpc' = [wpc EXCEPT ![w] = IF spatial_transform THEN "randomize" ELSE "stack"]
    /\ UNCHANGED <<itemConfig, cand, actionnum, frame_indices, stParams, retried, result,
                   initVars, loaderVars, trainVars, prepVars, batchVars>>

\* line 156: self.spatial_transform.randomize_parameters() stores fresh parameters in
\* the transform object
Randomize(w) ==
    /\ wpc[w] = "randomize"
    /\ \E p \in Params : stParams' = [stParams EXCEPT ![Owner(w)] = p]
    /\ wpc' = [wpc EXCEPT ![w] = IF Len(clip[w]) = 0 THEN "stack" ELSE "transform"]
    /\ UNCHANGED <<itemConfig, cand, actionnum, frame_indices, clip, nTransformed, retried,
                   result, initVars, loaderVars, trainVars, prepVars, batchVars>>

\* line 157, one frame: self.spatial_transform(img) with the parameters now stored
Transform(w) ==
    /\ wpc[w] = "transform"
    /\ LET k == nTransformed[w] + 1
       IN /\ clip' = [clip EXCEPT ![w][k] = [img |-> clip[w][k], params |-> stParams[Owner(w)]]]
          /\ nTransformed' = [nTransformed EXCEPT ![w] = k]
          /\ wpc' = [wpc EXCEPT ![w] = IF k = Len(clip[w]) THEN "stack" ELSE "transform"]
    /\ UNCHANGED <<itemConfig, cand, actionnum, frame_indices, stParams, retried, result,
                   initVars, loaderVars, trainVars, prepVars, batchVars>>

\* lines 158-168: stack, check, break and return
StackReturns(w) ==
    /\ wpc[w] = "stack"
    /\ ClipAccepted(clip[w])
    /\ result' = [result EXCEPT ![w] =
           [id |-> rec.id, duration |-> rec.duration,
            sentences |-> cand[w].sentences[actionnum[w] + 1],
            timestamps |-> cand[w].timestamps[actionnum[w] + 1],
            fps |-> rec.fps,
            clip |-> [shape |-> Permute(StackShape(clip[w])), frames |-> clip[w]]]]
    /\ wpc' = [wpc EXCEPT ![w] = "returned"]
    /\ UNCHANGED <<itemConfig, cand, actionnum, frame_indices, clip, nTransformed, stParams,
                   retried, initVars, loaderVars, trainVars, prepVars, batchVars>>

\* faulty variant: a rejected clip ends the access with an error instead of a retry
StackRetriesRaises(w) ==
    /\ wpc[w] = "stack"
    /\ ~ClipAccepted(clip[w])
    /\ wpc' = [wpc EXCEPT ![w] = "raised"]
    /\ UNCHANGED <<itemConfig, cand, actionnum, frame_indices, clip, nTransformed, stParams,
                   retried, result, initVars, loaderVars, trainVars, prepVars, batchVars>>

\* lines 161-165: the except branch, continue
StackRetries(w) ==
    /\ wpc[w] = "stack"
    /\ ~ClipAccepted(clip[w])
    /\ retried' = [retried EXCEPT ![w] = TRUE]
    /\ wpc' = [wpc EXCEPT ![w] = "draw"]
    /\ UNCHANGED <<itemConfig, cand, actionnum, frame_indices, clip, nTransformed, stParams,
                   result, initVars, loaderVars, trainVars, prepVars, batchVars>>

NextItem ==
    \/ \E w \in workers : BuildCandidates(w)
    \/ \E w \in workers : DrawRaises(w)
    \/ \E w \in workers : Draw(w)
    \/ \E w \in workers : Load(w)
    \/ \E w \in workers : Randomize(w)
    \/ \E w \in workers : Transform(w)
    \/ \E w \in workers : StackReturns(w)
    \/ \E w \in workers : StackRetries(w)

SpecItem == InitItem /\ [][NextItem]_vars
SpecWorkers == InitWorkers /\ [][NextItem]_vars

\* ------------------------------------------------------ C1, C2, C9, C10
\* C1: every returned Sample has a clip whose temporal dimension, the number of stacked
\* frames, is exactly sample_duration.
ClipHasSampleDuration ==
    \A w \in workers :
        wpc[w] = "returned" =>
            /\ Size(result[w].clip.shape, 1) = sample_duration
            /\ Len(result[w].clip.frames) = sample_duration

\* C1 witness: a Sample is returned although a frame file of the video is missing and an
\* earlier attempt of the same access was rejected
ClipHasSampleDurationWitness ==
    \E w \in workers :
        /\ wpc[w] = "returned"
        /\ retried[w]
        /\ \E i \in 1..rec.duration : ImagePath(i) \notin files

AllSegmentsInvalid ==
    \A k \in 1..Len(rec.timestamps) : ~ValidSegment(rec.timestamps[k])

\* C2: on a video whose every segment has start_frame >= end_frame an access gets an
\* empty candidate list, takes no retry and can only raise out of __getitem__.
EmptyCandidatesRaise ==
    AllSegmentsInvalid =>
        \A w \in workers :
            /\ wpc[w] \in {"start", "draw", "raised"}
            /\ ~retried[w]
            /\ wpc[w] = "draw" =>
                 /\ Len(cand[w].sentences) = 0
                 /\ ENABLED DrawRaises(w)
                 /\ ~ENABLED Draw(w)

\* C2 witness: such an access has raised
EmptyCandidatesRaiseWitness ==
    /\ AllSegmentsInvalid
    /\ \E w \in workers : wpc[w] = "raised"

\* C9 as stated: all frames of a returned clip carry the same spatial-transform
\* parameters, whatever the interleaving of the workers.
ClipSharesParams ==
    \A w \in workers :
        wpc[w] = "returned" =>
            \A i, j \in 1..Len(result[w].clip.frames) :
                result[w].clip.frames[i].params = result[w].clip.frames[j].params

\* positions of the record's segments with start_frame < end_frame
ValidPositions == {k \in 1..Len(rec.timestamps) : ValidSegment(rec.timestamps[k])}
\* the j-th of them in annotation order
NthValid(j) == CHOOSE v \in ValidPositions : Cardinality({u \in ValidPositions : u <= v}) = j

\* C10 as stated: the candidate lists are the first n_samples_for_each_video of the
\* segments with start_frame < end_frame, in annotation order, aligned by position, each
\* range being [start_frame, end_frame).
CandidatesAreFirstValid ==
    \A w \in workers :
        wpc[w] # "start" =>
            LET m == Min2(n_actions, Cardinality(ValidPositions))
            IN /\ Len(cand[w].sentences) = m
               /\ Len(cand[w].timestamps) = m
               /\ Len(cand[w].fidlist) = m
               /\ \A j \in 1..m :
                    /\ cand[w].sentences[j] = rec.sentences[NthValid(j)]
                    /\ cand[w].timestamps[j] = rec.timestamps[NthValid(j)]
                    /\ cand[w].fidlist[j] =
                           Range(rec.timestamps[NthValid(j)][1], rec.timestamps[NthValid(j)][2])

(***************************************************************************)
(* train.py                                                                *)
(***************************************************************************)
\* faulty variant: the encoder checkpoint alone decides
CheckpointsFoundEncOnly(e) == e \in encFiles

\* os.path.exists(enc_model_path) and os.path.exists(dec_model_path) for epoch e
CheckpointsFound(e) == e \in encFiles /\ e \in decFiles

\* faulty variant: the assertion admits max_epochs = offset
EpochsRemainGe(m, o) == m >= o

\* args.max_epochs > offset
EpochsRemain(m, o) == m > o

\* n_gpu > 1 and args.dataparallel
UseDataParallel(n, flag) == n > 1 /\ flag

InitTrain ==
    /\ start_from_ep \in -1..MaxStart
    /\ max_epochs \in 0..MaxEpochs
    /\ n_gpu \in 0..2
    /\ dataparallel \in BOOLEAN
    /\ max_it \in 0..MaxIt
    /\ encFiles \in SUBSET (1..MaxStart)
    /\ decFiles \in SUBSET (1..MaxStart)
    /\ offset = start_from_ep
    /\ encLoaded = {} /\ decLoaded = {}
    /\ wrapped = FALSE
    /\ ep = 0 /\ it = 0 /\ iterations = 0 /\ trained = {}
    /\ encSaved = {} /\ decSaved = {}
    /\ tpc = "resume"
    /\ IdleInit /\ IdleItem /\ IdleLoader /\ IdlePrep /\ IdleBatch

trainConfig == <<start_from_ep, max_epochs, n_gpu, dataparallel, max_it, encFiles, decFiles>>

\* lines 87-101: apply pretrained model
Resume ==
    /\ tpc = "resume"
    /\ IF offset # 0
       THEN IF CheckpointsFound(offset)
            THEN /\ encLoaded' = {offset}
                 /\ decLoaded' = {offset}
                 /\ UNCHANGED offset
            ELSE /\ offset' = 0
                 /\ UNCHANGED <<encLoaded, decLoaded>>
       ELSE UNCHANGED <<offset, encLoaded, decLoaded>>
    /\ tpc' = "wrap"
    /\ UNCHANGED <<trainConfig, wrapped, ep, it, iterations, trained, encSaved, decSaved,
                   initVars, itemVars, loaderVars, prepVars, batchVars>>

\* lines 103-108: move models to device, wrap them for several devices
Wrap ==
    /\ tpc = "wrap"
    /\ wrapped' = UseDataParallel(n_gpu, dataparallel)
    /\ tpc' = "assert"
    /\ UNCHANGED <<trainConfig, offset, encLoaded, decLoaded, ep, it, iterations, trained,
                   encSaved, decSaved, initVars, itemVars, loaderVars, prepVars, batchVars>>

\* line 123, the assertion fails
AssertAborts ==
    /\ tpc = "assert"
    /\ ~EpochsRemain(max_epochs, offset)
    /\ tpc' = "aborted"
    /\ UNCHANGED <<trainConfig, offset, encLoaded, decLoaded, wrapped, ep, it, iterations,
                   trained, encSaved, decSaved,
                   initVars, itemVars, loaderVars, prepVars, batchVars>>

\* lines 123-126, the assertion holds: for ep in range(offset, args.max_epochs)
StartTraining ==
    /\ tpc = "assert"
    /\ EpochsRemain(max_epochs, offset)
    /\ ep' = offset
    /\ it' = 0
    /\ tpc' = IF offset < max_epochs THEN "train" ELSE "done"
    /\ UNCHANGED <<trainConfig, offset, encLoaded, decLoaded, wrapped, iterations, trained,
                   encSaved, decSaved, initVars, itemVars, loaderVars, prepVars, batchVars>>

\* lines 127-156: one training iteration on the next batch
TrainIteration ==
    /\ tpc = "train"
    /\ it < max_it
    /\ it' = it + 1
    /\ iterations' = iterations + 1
    /\ UNCHANGED <<trainConfig, offset, encLoaded, decLoaded, wrapped, ep, trained,
                   encSaved, decSaved, tpc, initVars, itemVars, loaderVars, prepVars, batchVars>>

\* line 127: the data loader re-raises an exception of a dataset access
BatchRaises ==
    /\ tpc = "train"
    /\ it < max_it
    /\ tpc' = "crashed_batch"
    /\ UNCHANGED <<trainConfig, offset, encLoaded, decLoaded, wrapped, ep, it, iterations,
                   trained, encSaved, decSaved,
                   initVars, itemVars, loaderVars, prepVars, batchVars>>

\* lines 158-159: scheduler.step(nll...) after the last batch of the epoch
SchedulerStep ==
    /\ tpc = "train"
    /\ it = max_it
    /\ iterations > 0
    /\ trained' = trained \cup {ep}
    /\ tpc' = "save"
    /\ UNCHANGED <<trainConfig, offset, encLoaded, decLoaded, wrapped, ep, it, iterations,
                   encSaved, decSaved, initVars, itemVars, loaderVars, prepVars, batchVars>>

\* line 158 when no batch was ever trained on: nll is unbound, NameError
SchedulerRaises ==
    /\ tpc = "train"
    /\ it = max_it
    /\ iterations = 0
    /\ tpc' = "crashed_nll"
    /\ UNCHANGED <<trainConfig, offset, encLoaded, decLoaded, wrapped, ep, it, iterations,
                   trained, encSaved, decSaved,
                   initVars, itemVars, loaderVars, prepVars, batchVars>>

\* lines 161-178 with DataParallel wrappers: both state dicts are saved as epoch ep+1
SaveModels ==
    /\ tpc = "save"
    /\ wrapped
    /\ encSaved' = encSaved \cup {ep + 1}
    /\ decSaved' = decSaved \cup {ep + 1}
    /\ ep' = ep + 1
    /\ it' = 0
    /\ tpc' = IF ep + 1 < max_epochs THEN "train" ELSE "done"
    /\ UNCHANGED <<trainConfig, offset, encLoaded, decLoaded, wrapped, iterations, trained,
                   initVars, itemVars, loaderVars, prepVars, batchVars>>

\* line 173 without wrappers: video_encoder.module raises AttributeError before
\* anything is written
SaveRaises ==
    /\ tpc = "save"
    /\ ~wrapped
    /\ tpc' = "crashed_save"
    /\ UNCHANGED <<trainConfig, offset, encLoaded, decLoaded, wrapped, ep, it, iterations,
                   trained, encSaved, decSaved,
                   initVars, itemVars, loaderVars, prepVars, batchVars>>

NextTrain ==
    \/ Resume
    \/ Wrap
    \/ AssertAborts
    \/ StartTraining
    \/ TrainIteration
    \/ BatchRaises
    \/ SchedulerStep
    \/ SchedulerRaises
    \/ SaveModels
    \/ SaveRaises

SpecTrain == InitTrain /\ [][NextTrain]_vars

\* ------------------------------------------------------------ C4, C5, C6
\* resume was asked for and the encoder or the decoder checkpoint of that epoch is missing
ResumeFallback ==
    start_from_ep > 0 /\ (start_from_ep \notin encFiles \/ start_from_ep \notin decFiles)

\* the epoch loop has been entered
InEpochLoop == tpc \in {"train", "save", "done", "crashed_batch", "crashed_nll", "crashed_save"}

\* weights are loaded only when both files exist, and then into both sub-models
LoadsBothOrNone ==
    /\ (encLoaded # {} \/ decLoaded # {}) =>
          /\ encLoaded = {start_from_ep} /\ decLoaded = {start_from_ep}
          /\ start_from_ep \in encFiles /\ start_from_ep \in decFiles
    /\ (tpc # "resume" /\ start_from_ep # 0
            /\ start_from_ep \in encFiles /\ start_from_ep \in decFiles) =>
          encLoaded = {start_from_ep} /\ decLoaded = {start_from_ep}

\* C4 as stated: with a start offset > 0 and a missing checkpoint no weights are loaded,
\* the effective start epoch is 0 and training proceeds from epoch 0 without a hard
\* failure; weights are loaded only when both files exist, and then into both.
FallbackAlwaysTrains ==
    /\ (ResumeFallback /\ tpc # "resume") =>
          /\ encLoaded = {} /\ decLoaded = {}
          /\ offset = 0
          /\ tpc # "aborted"
          /\ InEpochLoop => (0..ep) \subseteq (trained \cup {ep})
    /\ LoadsBothOrNone

\* C4 amended: as stated, except that the run then starts the epoch loop at epoch 0
\* exactly when max_epochs > 0; with max_epochs <= 0 the epoch-count assertion aborts it.
FallbackTrainsFromScratch ==
    /\ (ResumeFallback /\ tpc # "resume") =>
          /\ encLoaded = {} /\ decLoaded = {}
          /\ offset = 0
          /\ tpc = "aborted" => max_epochs <= 0
          /\ (tpc \notin {"wrap", "assert"} /\ max_epochs > 0) => InEpochLoop
          /\ InEpochLoop => (0..ep) \subseteq (trained \cup {ep})
    /\ LoadsBothOrNone

\* C4 witness: resume from epoch 2 with only the encoder checkpoint of epoch 2 on disk
\* is training epoch 0 with nothing loaded
FallbackTrainsFromScratchWitness ==
    /\ start_from_ep = 2
    /\ 2 \in encFiles /\ 2 \notin decFiles
    /\ tpc = "train" /\ ep = 0 /\ iterations = 1
    /\ encLoaded = {} /\ decLoaded = {}

\* C5 as stated: whenever max_epochs <= the start offset given for resume, the run
\* aborts before any training iteration and before any checkpoint is written.
GivenOffsetRefused ==
    max_epochs <= start_from_ep =>
        /\ tpc \notin {"resume", "wrap", "assert"} => tpc = "aborted"
        /\ iterations = 0
        /\ encSaved = {} /\ decSaved = {}

\* C5 amended: the run aborts on the assertion, before any training iteration and any
\* checkpoint write, exactly when max_epochs <= the effective offset, which is the given
\* offset if both checkpoints of that epoch exist and 0 otherwise.
EffectiveOffsetRefused ==
    tpc \notin {"resume", "wrap", "assert"} =>
        /\ offset = IF start_from_ep # 0 /\ start_from_ep \in encFiles
                                          /\ start_from_ep \in decFiles
                    THEN start_from_ep ELSE 0
        /\ max_epochs <= offset <=> tpc = "aborted"
        /\ tpc = "aborted" => iterations = 0 /\ encSaved = {} /\ decSaved = {}

\* C5 witness: both checkpoints of epoch 2 exist, max_epochs = 2, the run is aborted
EffectiveOffsetRefusedWitness ==
    /\ tpc = "aborted"
    /\ start_from_ep = 2 /\ max_epochs = 2
    /\ encLoaded = {2} /\ decLoaded = {2}

\* C6: at the end of every completed epoch ep both checkpoints of epoch ep+1 are written,
\* in every device configuration, and a run that reaches 'end training' has written the
\* checkpoints offset+1 .. max_epochs of both sub-models.
CheckpointsEveryEpoch ==
    /\ \A e \in trained :
          \/ tpc = "save" /\ ep = e
          \/ (e + 1) \in encSaved /\ (e + 1) \in decSaved
    /\ tpc = "done" =>
          \A e \in (offset + 1)..max_epochs : e \in encSaved /\ e \in decSaved

(***************************************************************************)
(* The retry loop of one access under fair random choice                   *)
(***************************************************************************)
\* Draw(w) with the outcome of np.random.randint fixed to a and the begin of the
\* random temporal crop fixed to b (b = 0 without a temporal transform)
DrawChoice(w, a, b) ==
    /\ Draw(w)
    /\ actionnum'[w] = a
    /\ IF temporal_transform = 0
       THEN b = 0
       ELSE /\ b \in CropBegins(cand[w].fidlist[a + 1], temporal_transform)
            /\ frame_indices'[w] =
                   TemporalTransform(cand[w].fidlist[a + 1], temporal_transform, b)

\* a draw whose frame indices have sample_duration entries that all exist on disk
ValidDraw(w) ==
    /\ Draw(w)
    /\ Len(frame_indices'[w]) = sample_duration
    /\ \A k \in 1..Len(frame_indices'[w]) : ImagePath(frame_indices'[w][k]) \in files

\* (every step of an access changes wpc or nTransformed, so <<A>>_position is <<A>>_vars)
position == <<wpc, nTransformed>>

\* every step that can be taken is taken, and a valid outcome of the random draws that
\* stays possible again and again is drawn eventually
ItemFairness ==
    /\ WF_position(NextItem)
    /\ SF_position(ValidDraw(1))

\* one access to a video whose frame 1 exists and whose segments all start at frame 1,
\* every segment being within the first n_samples_for_each_video
InitItemFair ==
    /\ InitItem
    /\ n_actions = MaxSeg
    /\ ImagePath(1) \in files
    /\ \A k \in 1..Len(rec.timestamps) : rec.timestamps[k][1] = 1

SpecItemFair == InitItemFair /\ [][NextItem]_vars /\ ItemFairness

\* --------------------------------------------------------------- C11
\* the frame index lists a draw of candidate j (1-based) of worker w can produce
DrawnIndices(w, j) ==
    IF temporal_transform = 0
    THEN {cand[w].fidlist[j]}
    ELSE {TemporalTransform(cand[w].fidlist[j], temporal_transform, b) :
              b \in CropBegins(cand[w].fidlist[j], temporal_transform)}

\* candidate j of worker w can yield a clip of exactly sample_duration frames: the
\* frames become tensors, and some drawn index list has sample_duration indices whose
\* files all exist
CanYield(w, j) ==
    /\ spatial_transform
    /\ \E L \in DrawnIndices(w, j) :
         /\ Len(L) = sample_duration
         /\ \A k \in 1..Len(L) : ImagePath(L[k]) \in files

SomeCandidateYields(w) == \E j \in 1..Len(cand[w].fidlist) : CanYield(w, j)

\* a failed attempt only goes back to the draw: the candidate lists and the result are
\* untouched and every candidate can be drawn again
FailedAttemptRedraws ==
    \A w \in workers :
        (wpc[w] = "stack" /\ wpc'[w] # "stack" /\ wpc'[w] # "returned") =>
            /\ wpc'[w] = "draw"
            /\ cand'[w] = cand[w]
            /\ result'[w] = result[w]

VideoIds == 1..MaxMeta
FrameRates == {20, 60}
\* a metadata object of video v: ten seconds of 320x240 video
MetaObjects ==
    {[video_id |-> v, framerate |-> f, num_frames |-> 5 * f, width |-> 320, height |-> 240] :
         v \in VideoIds, f \in FrameRates}
PreTimestamps == {<< <<0, 3>> >>, << <<1, 4>>, <<4, 9>> >>}
\* an annotation object of video v; its k-th caption is written <<v, k>>
PreObjects ==
    {[video_id |-> v, timestamps |-> ts, captions |-> [k \in 1..Len(ts) |-> <<v, k>>]] :
         v \in VideoIds, ts \in PreTimestamps}

\* a dict is a function on its keys; d[k] = v
Put(d, k, v) == [x \in (DOMAIN d) \cup {k} |-> IF x = k THEN v ELSE d[x]]

\* [[int(ts*fps) for ts in region] for region in regions_sec]
Regions(regions_sec, fps) ==
    [k \in 1..Len(regions_sec) |->
        <<SecToFrame(regions_sec[k][1], fps), SecToFrame(regions_sec[k][2], fps)>>]

InitPrep ==
    /\ \E n \in 0..MaxMeta : key2idx = [v \in 1..n |-> v - 1]
    /\ metadata \in SeqsUpTo(MetaObjects, MaxMeta)
    /\ predata \in {p \in SeqsUpTo(PreObjects, MaxPre) :
                       \A i, j \in 1..Len(p) : p[i].video_id = p[j].video_id => i = j}
    /\ vidnum = Len(metadata)
    /\ heap = <<>> /\ prepData = <<>> /\ tmp = 0 /\ metaDone = 0 /\ preDone = 0
    /\ ppc = "start"
    /\ IdleInit /\ IdleItem /\ IdleLoader /\ IdleTrain /\ IdleBatch

prepArgs == <<predata, metadata, vidnum, key2idx>>

\* data = [None] * vidnum ; tmp = {}
Allocate ==
    /\ ppc = "start"
    /\ prepData' = [k \in 1..vidnum |-> 0]
    /\ heap' = Append(heap, <<>>)
    /\ tmp' = Len(heap) + 1
    /\ ppc' = "running"
    /\ UNCHANGED <<prepArgs, metaDone, preDone,
                   initVars, itemVars, loaderVars, trainVars, batchVars>>

\* the five assignments into tmp
TmpFilled(obj) ==
    [heap EXCEPT ![tmp] = Put(Put(Put(Put(Put(@, "video_id", obj.video_id),
                                  "framerate", obj.framerate), "num_frames", obj.num_frames),
                                  "width", obj.width), "height", obj.height)]

\* one pass of the loop over metadata
MetaStep ==
    /\ ppc = "running" /\ metaDone < Len(metadata)
    /\ LET obj == metadata[metaDone + 1]
       IN /\ obj.video_id \in DOMAIN key2idx
          /\ key2idx[obj.video_id] < vidnum
          /\ heap' = TmpFilled(obj)
          /\ prepData' = [prepData EXCEPT ![key2idx[obj.video_id] + 1] = tmp]
    /\ metaDone' = metaDone + 1
    /\ UNCHANGED <<prepArgs, tmp, preDone, ppc,
                   initVars, itemVars, loaderVars, trainVars, batchVars>>

\* KeyError of key2idx[obj['video_id']], or IndexError of data[idx] = tmp
MetaRaises ==
    /\ ppc = "running" /\ metaDone < Len(metadata)
    /\ LET obj == metadata[metaDone + 1]
       IN \/ /\ obj.video_id \notin DOMAIN key2idx
             /\ UNCHANGED heap
          \/ /\ obj.video_id \in DOMAIN key2idx
             /\ key2idx[obj.video_id] >= vidnum
             /\ heap' = TmpFilled(obj)
    /\ ppc' = "raised"
    /\ UNCHANGED <<prepArgs, prepData, tmp, metaDone, preDone,
                   initVars, itemVars, loaderVars, trainVars, batchVars>>

\* except KeyError: continue
PreSkip ==
    /\ ppc = "running" /\ metaDone = Len(metadata) /\ preDone < Len(predata)
    /\ predata[preDone + 1].video_id \notin DOMAIN key2idx
    /\ preDone' = preDone + 1
    /\ UNCHANGED <<prepArgs, heap, prepData, tmp, metaDone, ppc,
                   initVars, itemVars, loaderVars, trainVars, batchVars>>

\* one pass of the loop over predata
PreStep ==
    /\ ppc = "running" /\ metaDone = Len(metadata) /\ preDone < Len(predata)
    /\ LET obj == predata[preDone + 1]
       IN /\ obj.video_id \in DOMAIN key2idx
          /\ key2idx[obj.video_id] < vidnum
          /\ prepData[key2idx[obj.video_id] + 1] # 0
          /\ LET r == prepData[key2idx[obj.video_id] + 1]
                 fps == heap[r]["framerate"]
                 regs == Regions(obj.timestamps, fps)
             IN heap' = [heap EXCEPT ![r] = Put(Put(Put(@, "regions", regs),
                                                 "captions", obj.captions),
                                                 "segments", Len(regs))]
    /\ preDone' = preDone + 1
    /\ UNCHANGED <<prepArgs, prepData, tmp, metaDone, ppc,
                   initVars, itemVars, loaderVars, trainVars, batchVars>>

\* IndexError of data[idx], or TypeError of None['framerate']
PreRaises ==
    /\ ppc = "running" /\ metaDone = Len(metadata) /\ preDone < Len(predata)
    /\ LET obj == predata[preDone + 1]
       IN /\ obj.video_id \in DOMAIN key2idx
          /\ \/ key2idx[obj.video_id] >= vidnum
             \/ /\ key2idx[obj.video_id] < vidnum
                /\ prepData[key2idx[obj.video_id] + 1] = 0
    /\ ppc' = "raised"
    /\ UNCHANGED <<prepArgs, heap, prepData, tmp, metaDone, preDone,
                   initVars, itemVars, loaderVars, trainVars, batchVars>>

\* return data
PrepReturn ==
    /\ ppc = "running" /\ metaDone = Len(metadata) /\ preDone = Len(predata)
    /\ ppc' = "returned"
    /\ UNCHANGED <<prepArgs, heap, prepData, tmp, metaDone, preDone,
                   initVars, itemVars, loaderVars, trainVars, batchVars>>

NextPrep ==
    \/ Allocate
    \/ MetaStep
    \/ MetaRaises
    \/ PreSkip
    \/ PreStep
    \/ PreRaises
    \/ PrepReturn

SpecPrep == InitPrep /\ [][NextPrep]_vars

\* the last metadata object of video v, and the annotation objects of video v
OwnMeta(v) == metadata[SetMax({m \in 1..Len(metadata) : metadata[m].video_id = v})]
OwnPre(v) == {k \in 1..Len(predata) : predata[k].video_id = v}

\* C12: after preprocess returns, the record at key2idx[video_id] of every metadata object
\* holds that video's own video_id, framerate, num_frames, width and height, and its
\* regions, captions and segments are those of that video's own annotation object (none
\* if the video has no annotation object), whatever was written for other videos.
RecordsIndependent ==
    ppc = "returned" =>
        \A m \in 1..Len(metadata) :
            LET v == metadata[m].video_id
                d == heap[prepData[key2idx[v] + 1]]
            IN /\ \A f \in {"video_id", "framerate", "num_frames", "width", "height"} :
                      d[f] = OwnMeta(v)[f]
               /\ IF OwnPre(v) = {}
                  THEN DOMAIN d \cap {"regions", "captions", "segments"} = {}
                  ELSE \A k \in OwnPre(v) :
                         /\ d["regions"] = Regions(predata[k].timestamps, OwnMeta(v).framerate)
                         /\ d["captions"] = predata[k].captions
                         /\ d["segments"] = Len(predata[k].timestamps)

(***************************************************************************)
(* One training iteration of train.py: the targets of the loss             *)
(***************************************************************************)
SpecialTokens == {"start", "end", "unknown", "pad"}
\* Vocabulary: the special tokens have the lowest ids, the words the next ones
Vocabularies ==
    {v \in [SpecialTokens -> 0..(Cardinality(SpecialTokens) - 1)] :
         \A a, b \in SpecialTokens : v[a] = v[b] => a = b}
WordIds == {Cardinality(SpecialTokens), Cardinality(SpecialTokens) + 1}

\* collater: the ids of a sentence, bracketed by start and end
Encode(v, words) == <<v["start"]>> \o words \o <<v["end"]>>
\* collater: a row of the padded batch, pad-filled up to max_length
PadTo(v, seq, max_length) == seq \o [k \in 1..(max_length - Len(seq)) |-> v["pad"]]

RECURSIVE PackFrom(_, _, _)
\* the time steps t, t+1, ... of the rows still running at each step, step by step
PackFrom(M, L, t) ==
    IF L = <<>> \/ t > L[1] THEN <<>>
    ELSE [i \in 1..Cardinality({j \in 1..Len(L) : L[j] >= t}) |-> M[i][t]]
             \o PackFrom(M, L, t + 1)
\* pack_padded_sequence(M, L, batch_first=True)[0], L sorted in descending order
pack_padded_sequence(M, L) == PackFrom(M, L, 1)

\* the batch handed over by the trainloader: bs captions, longest first
InitBatch ==
    /\ vocab \in Vocabularies
    /\ bs \in 1..MaxBs
    /\ \E ws \in [1..bs -> SeqsUpTo(WordIds, MaxWords)] :
          /\ \A i \in 1..(bs - 1) : Len(ws[i]) >= Len(ws[i + 1])
          /\ lengths = [i \in 1..bs |-> Len(ws[i]) + 2]
          /\ captions = [i \in 1..bs |-> PadTo(vocab, Encode(vocab, ws[i]), Len(ws[1]) + 2)]
    /\ caption = <<>> /\ targets = <<>> /\ packed = <<>>
    /\ bpc = "loaded"
    /\ IdleInit /\ IdleItem /\ IdleLoader /\ IdleTrain /\ IdlePrep

batchInput == <<vocab, bs, captions, lengths>>

\* caption = caption_gen(feature, captions, lengths): the prediction of row i at step t,
\* written <<i, t>>, for every packed position
Forward ==
    /\ bpc = "loaded"
    /\ caption' = pack_padded_sequence(
                      [i \in 1..bs |-> [t \in 1..Len(captions[i]) |-> <<i, t>>]], lengths)
    /\ bpc' = "forwarded"
    /\ UNCHANGED <<batchInput, targets, packed,
                   initVars, itemVars, loaderVars, trainVars, prepVars>>

\* torch.zeros(args.bs, 1, dtype=torch.long)
Zeros(rows, cols) == [i \in 1..rows |-> [k \in 1..cols |-> 0]]

\* tmp = torch.zeros(...) ; targets = torch.cat((captions[:, 1:], tmp), dim=1)
ShiftTargets ==
    /\ bpc = "forwarded"
    /\ Len(captions) = bs
    /\ targets' = [i \in 1..bs |-> Tail(captions[i]) \o Zeros(bs, 1)[i]]
    /\ bpc' = "shifted"
    /\ UNCHANGED <<batchInput, caption, packed,
                   initVars, itemVars, loaderVars, trainVars, prepVars>>

\* targets = pack_padded_sequence(targets, lengths, batch_first=True)[0]
PackTargets ==
    /\ bpc = "shifted"
    /\ packed' = pack_padded_sequence(targets, lengths)
    /\ bpc' = "packed"
    /\ UNCHANGED <<batchInput, caption, targets,
                   initVars, itemVars, loaderVars, trainVars, prepVars>>

\* nll = criterion(caption, targets)
Loss ==
    /\ bpc = "packed"
    /\ Len(caption) = Len(packed)
    /\ bpc' = "done"
    /\ UNCHANGED <<batchInput, caption, targets, packed,
                   initVars, itemVars, loaderVars, trainVars, prepVars>>

NextBatch ==
    \/ Forward
    \/ ShiftTargets
    \/ PackTargets
    \/ Loss

SpecBatch == InitBatch /\ [][NextBatch]_vars

\* targets is captions shifted left by one, with last column x, packed like the predictions
ShiftedWithLast(x) ==
    LET max_length == Len(captions[1])
    IN /\ Len(targets) = Len(captions)
       /\ \A i \in 1..Len(captions) :
            /\ Len(targets[i]) = Len(captions[i])
            /\ \A t \in 1..(max_length - 1) : targets[i][t] = captions[i][t + 1]
            /\ targets[i][max_length] = x
       /\ Len(packed) = Len(caption)
       /\ \A k \in 1..Len(caption) : packed[k] = targets[caption[k][1]][caption[k][2]]

\* C13: in each training iteration the targets are the padded captions shifted left by one
\* position with the pad token id in the last column, of the same shape as the captions,
\* and packed with the same lengths as the predictions.
TargetsShiftedWithPad == bpc \in {"packed", "done"} => ShiftedWithLast(vocab["pad"])

\* what the iteration builds: the last column is the number 0, whatever the id of pad
TargetsShiftedWithZero == bpc \in {"packed", "done"} => ShiftedWithLast(0)

====
